---- MODULE Spec2Model ----
(***************************************************************************)
(* Verification model of the drogue-device mesh node and of the kernel     *)
(* wake primitive.                                                         *)
(*                                                                         *)
(*   kernel/src/system/signal.rs                 Signal (the wake slot)    *)
(*   device/src/drivers/ble/mesh/driver/node/mod.rs   Node, mailboxes      *)
(*                                                                         *)
(*   src/driver/uart/dma.rs                      the DMA UART's requests   *)
(*                                                                         *)
(* The specifications share the module: SpecSignal runs the wake slot      *)
(* under two concurrent contexts, SpecSlot adds SignalSlot's acquire and   *)
(* release, SpecNode runs Node::run with its environment (receiver,        *)
(* timers, producers, control signal, pipeline), SpecFlood runs the node   *)
(* under sustained inbound traffic with a fair executor, SpecUart runs the *)
(* DMA UART's read and write requests with their futures.                  *)
(***************************************************************************)
EXTENDS Naturals, Sequences, FiniteSets

(***************************************************************************)
(* Bounds of the model.                                                    *)
(***************************************************************************)
\* number of calls into the wake slot over one run
MaxCalls == 5
\* number of inbound radio messages (or receive errors) over one run
MaxInbound == 2
\* number of control messages signalled over one run
MaxControl == 2
\* number of mailbox sends issued by producers over one run
MaxSends == 4
\* number of read and write requests sent to the UART over one run
MaxOps == 4

(***************************************************************************)
(* State. Part I: kernel/src/system/signal.rs                              *)
(***************************************************************************)
VARIABLES
    sigState,    \* Signal.state: the State enum, [tag, waiters]
    lock,        \* Signal.lock: the context holding the mutex, or NoCtx
    cpc,         \* per context: position inside the current call
    cop,         \* per context: the method being called
    cwaker,      \* per context: cx.waker() of the poll_wait being called
    clocal,      \* per context: the value read from Signal.state
    cresult,     \* per context: the value the call returns
    woken,       \* per waker: number of Waker::wake calls received
    calls,       \* number of calls started
    sigCount,    \* signal() calls completed since the last Ready / reset
    lastReadyN,  \* sigCount read by the latest poll_wait that was Ready
    lastSignal,  \* record of the latest signal() body
    lastWait,    \* record of the latest poll_wait() body
    shadowed     \* wakers that polled while another waker was registered

sigVars == <<sigState, lock, cpc, cop, cwaker, clocal, cresult, woken, calls,
             sigCount, lastReadyN, lastSignal, lastWait, shadowed>>

\* the state of Part II (Node, ChannelState, and their environment)
VARIABLES
    pc,            \* Node::run: "start", "loop", "wait", "call", "returned" (Err)
    state,         \* Node.state: Cell<State>
    pipelineState, \* the state last passed to Pipeline::state, or "none"
    connects,      \* number of Elements::connect calls
    control,       \* NodeState.control: the control Signal's stored message
    rx,            \* Receiver: "none", or a completed receive "ok" / "err"
    timerFired,    \* the iteration's Ticker has completed its first period
    chanInit,      \* ChannelState::initialize has run (sender is Some)
    outbound,      \* ChannelState.outbound: queued AccessMessages
    publish_outbound, \* ChannelState.publish_outbound: queued publish messages
    suspended,     \* sends suspended on a full mailbox: [box, item]
    call,          \* the Pipeline / Transmitter call do_loop is suspended in
    inboundN,      \* inbound messages delivered by the radio so far
    controlN,      \* control messages signalled so far
    sendN,         \* mailbox sends issued so far (the latest item id)
    dropped,       \* items whose send completed without being enqueued
    accepted,      \* per mailbox, the items in the order the channel took them
    takenOrder,    \* per mailbox, the items in the order next() returned them
    resumed,       \* sends that suspended on a full mailbox and completed
    cutCall,       \* the call the latest iteration was in when select dropped it
    startup,       \* record of Node::run's startup, until the first iteration
    lastApply,     \* record of the latest process_inbound result do_loop applied
    iter,          \* record of the latest do_loop: the state it read, the
                   \* source its select returned, the calls it started, and
                   \* whether its Ticker completed a period during its wait
    lastIter,      \* how the do_loop before the next one ended: ok, err, or
                   \* dropped by select while in its wait (abandoned) or in
                   \* a call (cut); none once the next do_loop is created
    nodeResets     \* ConfigurationManager::node_reset calls made since the
                   \* latest do_loop was created

nodeVars == <<pc, state, pipelineState, connects, control, rx,
              timerFired, chanInit, outbound, publish_outbound, suspended,
              call, inboundN, controlN, sendN, dropped, lastIter,
              nodeResets, accepted, takenOrder, resumed, cutCall, startup,
              lastApply, iter>>

\* the state of Part III (the beacon and the publish resolution on their own)
VARIABLES
    uuid,          \* the device UUID the vault returns
    transmits,     \* the byte strings handed to Transmitter::transmit_bytes
    pubConfig,     \* the configuration Node::publish reads
    pubMessage,    \* the OutboundPublishMessage passed to Node::publish
    forwarded,     \* the AccessMessages passed to Pipeline::process_outbound
    pubResult      \* the value Node::publish returned, or "none"

pureVars == <<uuid, transmits, pubConfig, pubMessage, forwarded, pubResult>>

\* the state of Part IV (SignalSlot, around the Signal of Part I)
VARIABLES
    free,          \* SignalSlot.free: AtomicBool
    acq,           \* per context: what the swap of its latest acquire() returned
    grants         \* acquire() swaps that returned true since the latest release()

slotVars == <<free, acq, grants>>

\* the state of Part V (the DMA UART)
VARIABLES
    rx_state,      \* Shared.rx_state: AtomicBool
    tx_state,      \* Shared.tx_state: AtomicBool
    rx_timeout,    \* Shared.rx_timeout: the Signal's state
    timeoutOf,     \* the read whose ReadTimeout signalled rx_timeout, 0: none
    rxFutures,     \* the RxFutures returned and neither completed nor dropped
    txFutures,     \* the TxFutures returned and neither completed nor dropped
    scheduled,     \* the reads whose ReadTimeout the scheduler still holds
    opN,           \* requests sent so far (the latest request's id)
    lastOp,        \* record of the latest read / read_with_timeout / write
    cancels        \* [read, by]: read was cancelled by the ReadTimeout of by

uartVars == <<rx_state, tx_state, rx_timeout, timeoutOf, rxFutures, txFutures,
              scheduled, opN, lastOp, cancels>>

\* the contexts that call into the slot: the main loop and the interrupt side
Ctx == {"main", "irq"}
NoCtx == "none"
Wakers == {"w1", "w2"}
NoWaker == "nowaker"
NoRecord == [tag |-> "NoRecord"]

\* enum State { None, Waiting(Waker), Signaled }
StateNone == [tag |-> "None", waiters |-> {}]
Waiting(w) == [tag |-> "Waiting", waiters |-> {w}]
Signaled == [tag |-> "Signaled", waiters |-> {}]

\* Signal::new
SignalNew == StateNone

\* a faulty critical_section that enters without holding the lock
LockUnguarded(l) == TRUE
\* critical_section: self.lock.lock() succeeds only while nobody holds it
LockAvailable(l) == l = NoCtx

\* Signal::signal, the closure: mem::replace(state, Signaled), wake a Waiting waker
SignalNext(old) ==
    [state |-> Signaled,
     wake  |-> IF old.tag = "Waiting" THEN old.waiters ELSE {}]

\* a reset that leaves the state as it finds it
ResetLeavesState == sigState

\* Signal::reset, the closure
ResetNext == StateNone

\* faulty variants of poll_wait's closure: each one breaks a property below
PollWaitKeepsSignaled(m, cur, w) ==
    CASE m.tag = "None"     -> [state |-> Waiting(w), result |-> "Pending"]
      [] m.tag = "Waiting"  -> [state |-> cur, result |-> "Pending"]
      [] m.tag = "Signaled" -> [state |-> cur, result |-> "Ready"]
PollWaitNoRegister(m, cur, w) ==
    CASE m.tag = "None"     -> [state |-> cur, result |-> "Pending"]
      [] m.tag = "Waiting"  -> [state |-> cur, result |-> "Pending"]
      [] m.tag = "Signaled" ->
            [state  |-> StateNone,
             result |-> IF cur.tag = "Signaled" THEN "Ready" ELSE "Pending"]
PollWaitOverwrites(m, cur, w) ==
    CASE m.tag = "None"     -> [state |-> Waiting(w), result |-> "Pending"]
      [] m.tag = "Waiting"  -> [state |-> Waiting(w), result |-> "Pending"]
      [] m.tag = "Signaled" ->
            [state  |-> StateNone,
             result |-> IF cur.tag = "Signaled" THEN "Ready" ELSE "Pending"]
PollWaitReadyRearms(m, cur, w) ==
    CASE m.tag = "None"     -> [state |-> Waiting(w), result |-> "Pending"]
      [] m.tag = "Waiting"  -> [state |-> cur, result |-> "Pending"]
      [] m.tag = "Signaled" ->
            [state  |-> Waiting(w),
             result |-> IF cur.tag = "Signaled" THEN "Ready" ELSE "Pending"]

\* Signal::poll_wait, the closure. m is the value the match reads, cur the
\* value mem::replace finds in the Signaled arm, w the caller's waker.
PollWaitNext(m, cur, w) ==
    CASE m.tag = "None"     -> [state |-> Waiting(w), result |-> "Pending"]
      [] m.tag = "Waiting"  -> [state |-> cur, result |-> "Pending"]
      [] m.tag = "Signaled" ->
            [state  |-> StateNone,
             result |-> IF cur.tag = "Signaled" THEN "Ready" ELSE "Pending"]

InitSignal ==
    /\ sigState = SignalNew
    /\ lock = NoCtx
    /\ cpc = [c \in Ctx |-> "idle"]
    /\ cop = [c \in Ctx |-> "none"]
    /\ cwaker = [c \in Ctx |-> NoWaker]
    /\ clocal = [c \in Ctx |-> StateNone]
    /\ cresult = [c \in Ctx |-> "none"]
    /\ woken = [w \in Wakers |-> 0]
    /\ calls = 0
    /\ sigCount = 0
    /\ lastReadyN = 0
    /\ lastSignal = NoRecord
    /\ lastWait = NoRecord
    /\ shadowed = {}

\* a context starts signal(), reset() or poll_wait(cx)
Call(c, op, w) ==
    /\ cpc[c] = "idle"
    /\ calls < MaxCalls
    /\ calls' = calls + 1
    /\ cop' = [cop EXCEPT ![c] = op]
    /\ cwaker' = [cwaker EXCEPT ![c] = w]
    /\ cresult' = [cresult EXCEPT ![c] = "none"]
    /\ cpc' = [cpc EXCEPT ![c] = "lock"]
    /\ UNCHANGED <<sigState, lock, clocal, woken, sigCount, lastReadyN,
                   lastSignal, lastWait, shadowed>>
    /\ UNCHANGED <<nodeVars, pureVars, slotVars, uartVars>>

CallSignal(c) == Call(c, "signal", NoWaker)
CallReset(c) == Call(c, "reset", NoWaker)
CallPollWait(c) == \E w \in Wakers : Call(c, "poll_wait", w)

\* critical_section: let _guard = self.lock.lock().unwrap()
critical_section(c) ==
    /\ cpc[c] = "lock"
    /\ LockAvailable(lock)
    /\ lock' = c
    /\ cpc' = [cpc EXCEPT ![c] = IF cop[c] = "reset" THEN "write" ELSE "read"]
    /\ UNCHANGED <<sigState, cop, cwaker, clocal, cresult, woken, calls,
                   sigCount, lastReadyN, lastSignal, lastWait, shadowed>>
    /\ UNCHANGED <<nodeVars, pureVars, slotVars, uartVars>>

\* the closure reads *state (the match scrutinee, the old value of mem::replace)
ReadState(c) ==
    /\ cpc[c] = "read"
    /\ clocal' = [clocal EXCEPT ![c] = sigState]
    /\ cpc' = [cpc EXCEPT ![c] = "write"]
    /\ UNCHANGED <<sigState, lock, cop, cwaker, cresult, woken, calls,
                   sigCount, lastReadyN, lastSignal, lastWait, shadowed>>
    /\ UNCHANGED <<nodeVars, pureVars, slotVars, uartVars>>

\* Signal::signal: the write of Signaled and the wake of the waiter read
signal(c) ==
    /\ cpc[c] = "write"
    /\ cop[c] = "signal"
    /\ LET r == SignalNext(clocal[c]) IN
        /\ sigState' = r.state
        /\ woken' = [w \in Wakers |-> IF w \in r.wake THEN woken[w] + 1 ELSE woken[w]]
        /\ lastSignal' = [tag |-> "signal", pre |-> sigState, post |-> r.state,
                          woke |-> r.wake, shadowed |-> shadowed]
    /\ sigCount' = sigCount + 1
    /\ shadowed' = {}
    /\ cresult' = [cresult EXCEPT ![c] = "Unit"]
    /\ cpc' = [cpc EXCEPT ![c] = "unlock"]
    /\ UNCHANGED <<lock, cop, cwaker, clocal, calls, lastReadyN, lastWait>>
    /\ UNCHANGED <<nodeVars, pureVars, slotVars, uartVars>>

\* Signal::reset: *state = State::None
reset(c) ==
    /\ cpc[c] = "write"
    /\ cop[c] = "reset"
    /\ sigState' = ResetNext
    /\ sigCount' = 0
    /\ shadowed' = {}
    /\ cresult' = [cresult EXCEPT ![c] = "Unit"]
    /\ cpc' = [cpc EXCEPT ![c] = "unlock"]
    /\ UNCHANGED <<lock, cop, cwaker, clocal, woken, calls, lastReadyN,
                   lastSignal, lastWait>>
    /\ UNCHANGED <<nodeVars, pureVars, slotVars, uartVars>>

\* Signal::poll_wait: the arm chosen by the value read
poll_wait(c) ==
    /\ cpc[c] = "write"
    /\ cop[c] = "poll_wait"
    /\ LET r == PollWaitNext(clocal[c], sigState, cwaker[c]) IN
        /\ sigState' = r.state
        /\ cresult' = [cresult EXCEPT ![c] = r.result]
        /\ lastWait' = [tag |-> "poll_wait", pre |-> sigState, waker |-> cwaker[c],
                        post |-> r.state, result |-> r.result, sigs |-> sigCount]
        /\ sigCount' = IF r.result = "Ready" THEN 0 ELSE sigCount
        /\ lastReadyN' = IF r.result = "Ready" THEN sigCount ELSE lastReadyN
        /\ shadowed' =
              IF r.state.tag # "Waiting" THEN {}
              ELSE IF sigState.tag = "Waiting" /\ cwaker[c] \notin sigState.waiters
                   THEN shadowed \cup {cwaker[c]}
                   ELSE shadowed
    /\ cpc' = [cpc EXCEPT ![c] = "unlock"]
    /\ UNCHANGED <<lock, cop, cwaker, clocal, woken, calls, lastSignal>>
    /\ UNCHANGED <<nodeVars, pureVars, slotVars, uartVars>>

\* critical_section returns: _guard is dropped
Unlock(c) ==
    /\ cpc[c] = "unlock"
    /\ lock' = NoCtx
    /\ cpc' = [cpc EXCEPT ![c] = "idle"]
    /\ UNCHANGED <<sigState, cop, cwaker, clocal, cresult, woken, calls,
                   sigCount, lastReadyN, lastSignal, lastWait, shadowed>>
    /\ UNCHANGED <<nodeVars, pureVars, slotVars, uartVars>>

NextSignal ==
    \E c \in Ctx :
        \/ CallSignal(c)
        \/ CallReset(c)
        \/ CallPollWait(c)
        \/ critical_section(c)
        \/ ReadState(c)
        \/ signal(c)
        \/ reset(c)
        \/ poll_wait(c)
        \/ Unlock(c)

(***************************************************************************)
(* Part II: device/src/drivers/ble/mesh/driver/node/mod.rs                 *)
(***************************************************************************)
\* enum State
Unprovisioned == "Unprovisioned"
Provisioning == "Provisioning"
Provisioned == "Provisioned"
States == {Unprovisioned, Provisioning, Provisioned}

\* enum MeshNodeMessage
MeshNodeMessage == {"ForceReset", "Shutdown"}

\* a channel one slot larger than declared
CapacityOffByOne == 3 + 1

\* Channel<Noop, _, 3>: the capacity of both mailboxes
ChannelCapacity == 3

NoCall == [kind |-> "none", item |-> 0]
NewCall(k, i) == [kind |-> k, item |-> i]

\* Result<Option<State>, DeviceError>, the value of process_inbound().await
ProcessInboundResults == {"Err", "None"} \cup States
\* Result<(), DeviceError>, the value of the other awaited calls
UnitResults == {"Err", "Ok"}

\* do_loop: let current_state = self.state.get(). Only do_loop writes the
\* state, at its end, so during an iteration the local equals the cell.
current_state == state

\* connect_elements() on every result Provisioned, without the check of
\* current_state
ConnectOnEveryProvisioned(cur, next) == next = Provisioned

\* do_loop: connect_elements() when next_state is Provisioned and
\* current_state is not
ShouldConnect(cur, next) == next = Provisioned /\ cur # Provisioned

\* do_loop: if next_state != current_state { self.state.set(next_state); ...
ShouldWrite(cur, next) == next # cur

\* the notification made only on the change into Provisioned
NotifyOnProvisionedOnly(cur, next) == next # cur /\ next = Provisioned

\* ... self.pipeline.borrow_mut().state(next_state); }
NotifyOnChange(cur, next) == next # cur

\* a ForceReset arm that also puts the node back to Unprovisioned
StateResetOnForceReset(message, s) ==
    IF message = "ForceReset" THEN Unprovisioned ELSE s

\* Node::run, the match on the control message: neither arm writes self.state
StateAfterControl(message, s) == s

\* a Shutdown arm that leaves run()
AfterControlShutdownStops(message) ==
    IF message = "Shutdown" THEN "returned" ELSE "loop"

\* Node::run, the match on the control message: both arms fall out of the
\* match to the end of the loop body
AfterControl(message) == "loop"

\* a next() future that takes its item when it is created, so that dropping
\* it loses the item
QueueAfterLossTakes(q) == IF q = <<>> THEN q ELSE Tail(q)

\* a mailbox whose next() future was dropped while Pending: the channel's
\* receive takes an item only in the poll that returns it
QueueAfterLoss(q) == q

\* select's Left arm written as `Either::Left((r, _)) => r?`: an Err leaves run
AfterIterationPropagates(result) == IF result = "Err" THEN "returned" ELSE "loop"

\* Node::run, the match on select's result: Either::Left((_, _)) => {} ignores
\* the iteration's Result and the loop goes round again
AfterIteration(result) == "loop"

\* a ticker arm that retransmits only while Provisioning
TickerCallRetransmitInProvisioning(s) ==
    IF s = Provisioning THEN "try_retransmit" ELSE "beacon_tick"

\* a ticker arm that retransmits only while Provisioned
TickerCallRetransmitInProvisioned(s) ==
    IF s = Provisioned THEN "try_retransmit" ELSE "beacon_tick"

\* the call the ticker arm of the state's loop makes: a beacon transmit in
\* loop_unprovisioned, try_retransmit in loop_provisioning / loop_provisioned
TickerCall(s) == IF s = Unprovisioned THEN "beacon_tick" ELSE "try_retransmit"

\* the callee behind each kind of awaited call
CallTarget(kind) ==
    IF kind \in {"beacon_first", "beacon_tick"} THEN "transmit_bytes"
    ELSE IF kind = "publish" THEN "process_outbound"
    ELSE kind

\* Node::publish, how the lookups end: no network, no publication for the
\* (element address, model identifier), no app key for the publication's
\* index, or all three found
PublishResolutions == {"no_network", "no_publication", "no_app_key", "found"}

\* a publish that forwards without the app key lookup
PublishForwardsWithoutAppKey(resolution) ==
    resolution \in {"found", "no_app_key"}

\* Node::publish calls process_outbound inside the three nested `if let Some`
PublishForwards(resolution) == resolution = "found"

\* a catch-all arm that returns the receiver's error from the iteration
ReceiveErrPropagates(r) == "Err"

\* the loops' catch-all arm, which a receive that completed with Err(e)
\* falls to: `_ => Ok(None)`, whatever the error
ReceiveErrResult(r) == "Ok"

\* a Ticker kept across iterations: a period that has completed stays so
KeepTicker(fired) == fired

\* Ticker::every(period) inside loop_*: every iteration creates its Ticker,
\* whose first tick lies one full period after the creation
ArmTicker(fired) == FALSE

\* the record of an iteration whose select returned source w and which then
\* started the call of kind k ("none": no call)
Won(w, res, k) ==
    [iter EXCEPT !.winner = w, !.resolution = res,
                 !.calls = IF k = "none" THEN @ ELSE Append(@, CallTarget(k))]

\* the queue of a mailbox that is not the one select returned: only
\* loop_provisioned creates next() futures, and they live while it waits
LoserQueue(q) ==
    IF pc = "wait" /\ current_state = Provisioned THEN QueueAfterLoss(q) ELSE q

\* an outbound mailbox that every state's loop reads
OutboundReadyInAnyState == Len(outbound) > 0

\* the sources of one iteration's select, by state
RecvReady == rx # "none"
TickReady == timerFired
OutboundReady == current_state = Provisioned /\ Len(outbound) > 0
PublishReady == current_state = Provisioned /\ Len(publish_outbound) > 0
AnySourceReady == RecvReady \/ TickReady \/ OutboundReady \/ PublishReady

\* select(loop_fut, signal_fut) polls loop_fut first and signal_fut only when
\* loop_fut is Pending: in its wait with no source ready, or inside a call
\* that has not completed when the task is polled.
LoopPending ==
    \/ pc = "wait" /\ ~AnySourceReady
    \/ pc = "call"

InitNode ==
    /\ pc = "start"
    /\ state = Unprovisioned
    /\ pipelineState = "none"
    /\ connects = 0
    /\ control = "None"
    /\ rx = "none"
    /\ timerFired = FALSE
    /\ chanInit = FALSE
    /\ outbound = <<>>
    /\ publish_outbound = <<>>
    /\ suspended = {}
    /\ call = NoCall
    /\ inboundN = 0
    /\ controlN = 0
    /\ sendN = 0
    /\ dropped = {}
    /\ accepted = [box \in {"outbound", "publish_outbound"} |-> <<>>]
    /\ takenOrder = [box \in {"outbound", "publish_outbound"} |-> <<>>]
    /\ resumed = {}
    /\ cutCall = NoCall
    /\ startup = NoRecord
    /\ lastApply = NoRecord
    /\ iter = NoRecord
    /\ lastIter = "none"
    /\ nodeResets = 0

(* ------------------------------ environment ---------------------------- *)

\* the radio completes a receive: Ok(bytes) or Err(DeviceError)
Inbound ==
    /\ rx = "none"
    /\ inboundN < MaxInbound
    /\ \E r \in {"ok", "err"} : rx' = r
    /\ inboundN' = inboundN + 1
    /\ UNCHANGED <<pc, state, pipelineState, connects, control, timerFired,
                   chanInit, outbound, publish_outbound, suspended, call,
                   controlN, sendN, dropped, lastIter, nodeResets>>
    /\ UNCHANGED <<accepted, takenOrder, resumed, cutCall, startup, lastApply>>
    /\ UNCHANGED iter
    /\ UNCHANGED <<sigVars, pureVars, slotVars, uartVars>>

\* the Ticker armed by this iteration completes its period
TimerFires ==
    /\ pc = "wait"
    /\ ~timerFired
    /\ timerFired' = TRUE
    /\ iter' = [iter EXCEPT !.fired = TRUE]
    /\ UNCHANGED <<pc, state, pipelineState, connects, control, rx, chanInit,
                   outbound, publish_outbound, suspended, call, inboundN,
                   controlN, sendN, dropped, lastIter, nodeResets>>
    /\ UNCHANGED <<accepted, takenOrder, resumed, cutCall, startup, lastApply>>
    /\ UNCHANGED <<sigVars, pureVars, slotVars, uartVars>>

\* control.signal(message): the slot keeps the latest message
ControlSignal ==
    /\ controlN < MaxControl
    /\ \E m \in MeshNodeMessage : control' = m
    /\ controlN' = controlN + 1
    /\ UNCHANGED <<pc, state, pipelineState, connects, rx, timerFired,
                   chanInit, outbound, publish_outbound, suspended, call,
                   inboundN, sendN, dropped, lastIter, nodeResets>>
    /\ UNCHANGED <<accepted, takenOrder, resumed, cutCall, startup, lastApply>>
    /\ UNCHANGED iter
    /\ UNCHANGED <<sigVars, pureVars, slotVars, uartVars>>

(* ------------------------------ mailboxes ------------------------------ *)

Boxes == {"outbound", "publish_outbound"}
Queue(box) == IF box = "outbound" THEN outbound ELSE publish_outbound
Range(s) == {s[i] : i \in 1..Len(s)}

\* the items next() has returned, from either mailbox
taken == Range(takenOrder["outbound"]) \cup Range(takenOrder["publish_outbound"])

\* a channel that accepts a message whatever it holds
HasRoomAlways(box) == TRUE

\* the channel accepts a message while it holds fewer than its capacity
HasRoom(box) == Len(Queue(box)) < ChannelCapacity

\* a channel that puts the accepted item at the head of its queue
EnqueueFront(box, item) ==
    /\ outbound' = IF box = "outbound" THEN <<item>> \o outbound ELSE outbound
    /\ publish_outbound' = IF box = "publish_outbound"
                           THEN <<item>> \o publish_outbound
                           ELSE publish_outbound
    /\ accepted' = [accepted EXCEPT ![box] = Append(@, item)]

\* the queue of mailbox box after the channel accepted item
Enqueue(box, item) ==
    /\ outbound' = IF box = "outbound" THEN Append(outbound, item) ELSE outbound
    /\ publish_outbound' = IF box = "publish_outbound"
                           THEN Append(publish_outbound, item)
                           ELSE publish_outbound
    /\ accepted' = [accepted EXCEPT ![box] = Append(@, item)]

\* OutboundChannel::send / OutboundPublishChannel::send:
\*   if let Some(sender) = ... { sender.send(message).await.ok(); }
\* With no sender the call returns at once and the message is gone; with a
\* sender the message is enqueued, or the send suspends while the queue is full.
send(box) ==
    /\ sendN < MaxSends
    /\ sendN' = sendN + 1
    /\ LET item == sendN + 1 IN
       IF ~chanInit
       THEN /\ dropped' = dropped \cup {item}
            /\ UNCHANGED <<outbound, publish_outbound, suspended, accepted>>
       ELSE IF HasRoom(box)
       THEN /\ Enqueue(box, item)
            /\ UNCHANGED <<dropped, suspended>>
       ELSE /\ suspended' = suspended \cup {[box |-> box, item |-> item]}
            /\ UNCHANGED <<outbound, publish_outbound, dropped, accepted>>
    /\ UNCHANGED <<pc, state, pipelineState, connects, control, rx, timerFired,
                   chanInit, call, inboundN, controlN, lastIter,
                   nodeResets>>
    /\ UNCHANGED <<takenOrder, resumed, cutCall, startup, lastApply>>
    /\ UNCHANGED iter
    /\ UNCHANGED <<sigVars, pureVars, slotVars, uartVars>>

\* a suspended sender.send(message) is polled again once a slot is free
send_resume ==
    /\ \E s \in suspended :
        /\ HasRoom(s.box)
        /\ suspended' = suspended \ {s}
        /\ resumed' = resumed \cup {s}
        /\ Enqueue(s.box, s.item)
    /\ UNCHANGED <<pc, state, pipelineState, connects, control, rx, timerFired,
                   chanInit, call, inboundN, controlN, sendN, dropped,
                   lastIter, nodeResets>>
    /\ UNCHANGED <<takenOrder, cutCall, startup, lastApply>>
    /\ UNCHANGED iter
    /\ UNCHANGED <<sigVars, pureVars, slotVars, uartVars>>

(* ------------------------------ Node::run ------------------------------ *)

\* a load that resets after a failed initialize() but does not load again
ConfigLoadNoRetry(init1, init2) ==
    IF init1 = "Ok"
    THEN [calls |-> <<"initialize">>, init2 |-> "unused", ok |-> TRUE]
    ELSE [calls |-> <<"initialize", "reset">>, init2 |-> "unused", ok |-> TRUE]

\* Node::run, the configuration load: initialize(); on Err, reset() and
\* initialize() once more, whose Err `?` returns. init2 is the result of the
\* second initialize(), which is called only after a failed first one.
ConfigLoad(init1, init2) ==
    IF init1 = "Ok"
    THEN [calls |-> <<"initialize">>, init2 |-> "unused", ok |-> TRUE]
    ELSE [calls |-> <<"initialize", "reset", "initialize">>, init2 |-> init2,
          ok |-> init2 = "Ok"]

\* a startup that notifies the Pipeline before the configuration is consulted
StartupStepsNotifyFirst(provisioned) ==
    IF provisioned
    THEN <<"channel_initialize", "pipeline_state", "set_provisioned",
           "connect_elements">>
    ELSE <<"channel_initialize", "pipeline_state">>

\* Node::run between the load and the loop, in program order
StartupSteps(provisioned) ==
    IF provisioned
    THEN <<"channel_initialize", "set_provisioned", "connect_elements",
           "pipeline_state">>
    ELSE <<"channel_initialize", "pipeline_state">>

\* the effect of one startup statement on the node's fields
StartupStep(n, step) ==
    CASE step = "channel_initialize" -> [n EXCEPT !.chanInit = TRUE]
      [] step = "set_provisioned" -> [n EXCEPT !.state = Provisioned]
      [] step = "connect_elements" -> [n EXCEPT !.connects = @ + 1]
      [] step = "pipeline_state" -> [n EXCEPT !.pipelineState = n.state]

RECURSIVE StartupRun(_, _)
StartupRun(n, steps) ==
    IF steps = <<>> THEN n
    ELSE StartupRun(StartupStep(n, Head(steps)), Tail(steps))

\* Node::run up to the loop: configuration_manager.initialize; on failure
\* reset() and initialize again, whose error `?` returns; then
\* channel_state.initialize, the is_provisioned check with connect_elements,
\* and pipeline.state(self.state.get()).
run_start ==
    /\ pc = "start"
    /\ \E init1 \in UnitResults, init2 \in UnitResults, provisioned \in BOOLEAN :
        LET load == ConfigLoad(init1, init2)
            steps == StartupSteps(provisioned)
            n == StartupRun([chanInit |-> chanInit, state |-> state,
                             connects |-> connects,
                             pipelineState |-> pipelineState], steps)
        IN  IF ~load.ok
            THEN /\ pc' = "returned"
                 /\ startup' = [tag |-> "ran", init1 |-> init1,
                                init2 |-> load.init2, calls |-> load.calls,
                                ok |-> FALSE, provisioned |-> FALSE,
                                steps |-> <<>>]
                 /\ UNCHANGED <<state, pipelineState, connects, chanInit>>
            ELSE /\ pc' = "loop"
                 /\ startup' = [tag |-> "ran", init1 |-> init1,
                                init2 |-> load.init2, calls |-> load.calls,
                                ok |-> TRUE, provisioned |-> provisioned,
                                steps |-> steps]
                 /\ chanInit' = n.chanInit
                 /\ state' = n.state
                 /\ connects' = n.connects
                 /\ pipelineState' = n.pipelineState
    /\ UNCHANGED <<control, rx, timerFired, outbound, publish_outbound,
                   suspended, call, inboundN, controlN, sendN, dropped,
                   lastIter, nodeResets>>
    /\ UNCHANGED <<accepted, takenOrder, resumed, cutCall, lastApply>>
    /\ UNCHANGED iter
    /\ UNCHANGED <<sigVars, pureVars, slotVars, uartVars>>

\* do_loop has returned and select gives Either::Left
EndIteration(result) ==
    /\ pc' = AfterIteration(result)
    /\ lastIter' = IF result = "Err" THEN "err" ELSE "ok"
    /\ call' = NoCall

\* do_loop is created and polled: it reads the state and enters the state's
\* loop; loop_unprovisioned first transmits a beacon, the other two arm
\* their Ticker and wait.
do_loop ==
    /\ pc = "loop"
    /\ timerFired' = ArmTicker(timerFired)
    /\ IF state = Unprovisioned
       THEN pc' = "call" /\ call' = NewCall("beacon_first", 0)
       ELSE pc' = "wait" /\ call' = NoCall
    /\ iter' = [tag |-> "iter", from |-> state, winner |-> "none", resolution |-> "none",
                calls |-> IF state = Unprovisioned
                          THEN <<CallTarget("beacon_first")>> ELSE <<>>,
                fired |-> FALSE]
    /\ startup' = NoRecord
    /\ lastApply' = NoRecord
    /\ cutCall' = NoCall
    /\ lastIter' = "none"
    /\ nodeResets' = 0
    /\ UNCHANGED <<state, pipelineState, connects, control, rx, chanInit,
                   outbound, publish_outbound, suspended, inboundN, controlN,
                   sendN, dropped>>
    /\ UNCHANGED <<accepted, takenOrder, resumed>>
    /\ UNCHANGED <<sigVars, pureVars, slotVars, uartVars>>

\* the receive future wins the select: Ok(bytes) goes to process_inbound,
\* Err falls to the catch-all arm, Ok(None)
select_receive ==
    /\ pc = "wait"
    /\ RecvReady
    /\ rx' = "none"
    /\ IF rx = "ok"
       THEN /\ pc' = "call"
            /\ call' = NewCall("process_inbound", 0)
            /\ iter' = Won("receive", "none", "process_inbound")
            /\ UNCHANGED lastIter
       ELSE /\ EndIteration(ReceiveErrResult(rx))
            /\ iter' = Won("receive_err", "none", "none")
    /\ outbound' = LoserQueue(outbound)
    /\ publish_outbound' = LoserQueue(publish_outbound)
    /\ UNCHANGED <<state, pipelineState, connects, control, timerFired,
                   chanInit, suspended, inboundN,
                   controlN, sendN, dropped, nodeResets>>
    /\ UNCHANGED <<accepted, takenOrder, resumed, cutCall, startup, lastApply>>
    /\ UNCHANGED <<sigVars, pureVars, slotVars, uartVars>>

\* the ticker wins: a beacon when Unprovisioned, try_retransmit otherwise
select_ticker ==
    /\ pc = "wait"
    /\ ~RecvReady
    /\ TickReady
    /\ pc' = "call"
    /\ call' = NewCall(TickerCall(current_state), 0)
    /\ iter' = Won("ticker", "none", TickerCall(current_state))
    /\ outbound' = LoserQueue(outbound)
    /\ publish_outbound' = LoserQueue(publish_outbound)
    /\ UNCHANGED <<state, pipelineState, connects, control, rx, timerFired,
                   chanInit, suspended, inboundN,
                   controlN, sendN, dropped, lastIter, nodeResets>>
    /\ UNCHANGED <<accepted, takenOrder, resumed, cutCall, startup, lastApply>>
    /\ UNCHANGED <<sigVars, pureVars, slotVars, uartVars>>

\* a select that polls the mailboxes before the receive and ticker futures
select_outbound_first ==
    /\ pc = "wait"
    /\ OutboundReady
    /\ outbound' = Tail(outbound)
    /\ publish_outbound' = LoserQueue(publish_outbound)
    /\ takenOrder' = [takenOrder EXCEPT !["outbound"] = Append(@, Head(outbound))]
    /\ pc' = "call"
    /\ call' = NewCall("process_outbound", Head(outbound))
    /\ iter' = Won("outbound", "none", "process_outbound")
    /\ UNCHANGED <<state, pipelineState, connects, control, rx, timerFired,
                   chanInit, suspended, inboundN, controlN,
                   sendN, dropped, lastIter, nodeResets>>
    /\ UNCHANGED <<accepted, resumed, cutCall, startup, lastApply>>
    /\ UNCHANGED <<sigVars, pureVars, slotVars, uartVars>>

\* loop_provisioned: outbound.next() wins, the message goes to process_outbound
select_outbound ==
    /\ pc = "wait"
    /\ ~RecvReady /\ ~TickReady
    /\ OutboundReady
    /\ outbound' = Tail(outbound)
    /\ publish_outbound' = LoserQueue(publish_outbound)
    /\ takenOrder' = [takenOrder EXCEPT !["outbound"] = Append(@, Head(outbound))]
    /\ pc' = "call"
    /\ call' = NewCall("process_outbound", Head(outbound))
    /\ iter' = Won("outbound", "none", "process_outbound")
    /\ UNCHANGED <<state, pipelineState, connects, control, rx, timerFired,
                   chanInit, suspended, inboundN, controlN,
                   sendN, dropped, lastIter, nodeResets>>
    /\ UNCHANGED <<accepted, resumed, cutCall, startup, lastApply>>
    /\ UNCHANGED <<sigVars, pureVars, slotVars, uartVars>>

\* loop_provisioned: publish_outbound.next() wins, the message goes to
\* Node::publish, which calls process_outbound when a publication and its app
\* key are found and returns Ok(()) otherwise
select_publish ==
    /\ pc = "wait"
    /\ ~RecvReady /\ ~TickReady /\ ~OutboundReady
    /\ PublishReady
    /\ publish_outbound' = Tail(publish_outbound)
    /\ outbound' = LoserQueue(outbound)
    /\ takenOrder' = [takenOrder EXCEPT !["publish_outbound"] =
                                        Append(@, Head(publish_outbound))]
    /\ \E resolution \in PublishResolutions :
        IF PublishForwards(resolution)
        THEN /\ pc' = "call"
             /\ call' = NewCall("publish", Head(publish_outbound))
             /\ iter' = Won("publish", resolution, "publish")
             /\ UNCHANGED lastIter
        ELSE /\ EndIteration("Ok")
             /\ iter' = Won("publish", resolution, "none")
    /\ UNCHANGED <<state, pipelineState, connects, control, rx, timerFired,
                   chanInit, suspended, inboundN, controlN, sendN,
                   dropped, nodeResets>>
    /\ UNCHANGED <<accepted, resumed, cutCall, startup, lastApply>>
    /\ UNCHANGED <<sigVars, pureVars, slotVars, uartVars>>

\* the beacon transmitted on entry to loop_unprovisioned completes: an error
\* ends do_loop, success arms the 3 s Ticker and waits
beacon_first_done ==
    /\ pc = "call" /\ call.kind = "beacon_first"
    /\ \E r \in UnitResults :
        IF r = "Err"
        THEN EndIteration("Err")
        ELSE /\ pc' = "wait"
             /\ call' = NoCall
             /\ UNCHANGED lastIter
    /\ timerFired' = ArmTicker(timerFired)
    /\ UNCHANGED <<state, pipelineState, connects, control, rx, chanInit,
                   outbound, publish_outbound, suspended, inboundN, controlN,
                   sendN, dropped, nodeResets>>
    /\ UNCHANGED <<accepted, takenOrder, resumed, cutCall, startup, lastApply>>
    /\ UNCHANGED iter
    /\ UNCHANGED <<sigVars, pureVars, slotVars, uartVars>>

\* transmit (ticker arm), try_retransmit, process_outbound complete: `?`
\* returns the error from do_loop, success gives Ok(None)
unit_call_done ==
    /\ pc = "call"
    /\ call.kind \in {"beacon_tick", "try_retransmit", "process_outbound", "publish"}
    /\ \E r \in UnitResults : EndIteration(r)
    /\ UNCHANGED <<state, pipelineState, connects, control, rx, timerFired,
                   chanInit, outbound, publish_outbound, suspended, inboundN,
                   controlN, sendN, dropped, nodeResets>>
    /\ UNCHANGED <<accepted, takenOrder, resumed, cutCall, startup, lastApply>>
    /\ UNCHANGED iter
    /\ UNCHANGED <<sigVars, pureVars, slotVars, uartVars>>

\* process_inbound completes; do_loop applies a Some(next_state)
process_inbound_done ==
    /\ pc = "call" /\ call.kind = "process_inbound"
    /\ \E r \in ProcessInboundResults :
        /\ EndIteration(IF r = "Err" THEN "Err" ELSE "Ok")
        /\ IF r \in States
           THEN /\ connects' = IF ShouldConnect(current_state, r)
                               THEN connects + 1 ELSE connects
                /\ state' = IF ShouldWrite(current_state, r) THEN r ELSE state
                /\ pipelineState' = IF NotifyOnChange(current_state, r)
                                    THEN r ELSE pipelineState
                /\ lastApply' = [tag |-> "apply", from |-> current_state,
                                 result |-> r, connectsBefore |-> connects,
                                 wrote |-> ShouldWrite(current_state, r),
                                 notified |-> NotifyOnChange(current_state, r)]
           ELSE UNCHANGED <<state, pipelineState, connects, lastApply>>
    /\ UNCHANGED <<control, rx, timerFired, chanInit, outbound,
                   publish_outbound, suspended, inboundN, controlN, sendN,
                   dropped, nodeResets>>
    /\ UNCHANGED <<accepted, takenOrder, resumed, cutCall, startup>>
    /\ UNCHANGED iter
    /\ UNCHANGED <<sigVars, pureVars, slotVars, uartVars>>

\* select(loop_fut, signal_fut): loop_fut is Pending and the control signal
\* holds a message: Either::Right, and loop_fut is dropped where it stands.
\* ForceReset awaits configuration_manager.node_reset(); Shutdown does nothing.
control_wins ==
    /\ LoopPending
    /\ control # "None"
    /\ control' = "None"
    /\ nodeResets' = IF control = "ForceReset" THEN nodeResets + 1 ELSE nodeResets
    /\ lastIter' = IF pc = "call" THEN "cut" ELSE "abandoned"
    /\ cutCall' = call
    /\ call' = NoCall
    /\ pc' = AfterControl(control)
    /\ outbound' = LoserQueue(outbound)
    /\ publish_outbound' = LoserQueue(publish_outbound)
    /\ state' = StateAfterControl(control, state)
    /\ UNCHANGED <<pipelineState, connects, rx, timerFired, chanInit,
                   suspended, inboundN, controlN,
                   sendN, dropped>>
    /\ UNCHANGED <<accepted, takenOrder, resumed, startup, lastApply>>
    /\ UNCHANGED iter
    /\ UNCHANGED <<sigVars, pureVars, slotVars, uartVars>>

NextNode ==
    \/ Inbound
    \/ TimerFires
    \/ ControlSignal
    \/ \E box \in Boxes : send(box)
    \/ send_resume
    \/ run_start
    \/ do_loop
    \/ select_receive
    \/ select_ticker
    \/ select_outbound
    \/ select_publish
    \/ beacon_first_done
    \/ unit_call_done
    \/ process_inbound_done
    \/ control_wins


(***************************************************************************)
(* Part III: Node::transmit_unprovisioned_beacon and Node::publish as      *)
(* functions of their inputs.                                              *)
(***************************************************************************)

\* Vec<u8, 31>: the capacity of adv_data
AdvCapacity == 31

\* crate::drivers::ble::mesh::MESH_BEACON, the advertising data type of a
\* mesh beacon
MESH_BEACON == 43

\* the length of the device UUID
UuidLen == 16

\* the UUID 00112233445566778899AABBCCDDEEFF
ExampleUuid == [i \in 1..UuidLen |-> 17 * (i - 1)]

\* the UUIDs tried: the example, and the example with one byte replaced
ByteSamples == {0, 1, 127, 128, 255}
UuidSamples ==
    {ExampleUuid} \cup
    {[ExampleUuid EXCEPT ![i] = b] : i \in 1..UuidLen, b \in ByteSamples}

\* heapless Vec::extend_from_slice(..).ok(): the slice is appended if it
\* fits in the remaining capacity; otherwise the Err is discarded and the
\* vector is left as it was
Extend(v, slice) ==
    IF Len(v) + Len(slice) <= AdvCapacity THEN v \o slice ELSE v

\* a beacon with the trailer bytes put before the UUID
BeaconBytesTrailerFirst(u) ==
    Extend(Extend(Extend(<<>>, <<20, MESH_BEACON, 0>>), <<160, 64>>), u)

\* transmit_unprovisioned_beacon: adv_data after its three extend_from_slice
BeaconBytes(u) ==
    Extend(Extend(Extend(<<>>, <<20, MESH_BEACON, 0>>), u), <<160, 64>>)

\* transmit_unprovisioned_beacon: the bytes built from the vault's UUID are
\* handed to the transmitter
transmit_unprovisioned_beacon ==
    /\ transmits = <<>>
    /\ transmits' = <<BeaconBytes(uuid)>>
    /\ UNCHANGED <<uuid, pubConfig, pubMessage, forwarded, pubResult>>
    /\ UNCHANGED <<sigVars, nodeVars, slotVars, uartVars>>

NextBeacon == transmit_unprovisioned_beacon

\* the values the fields of the messages and of the configuration range over
ElementAddresses == {1, 2}
ModelIdentifiers == {"m1", "m2"}
Payloads == {"p1", "p2"}
PublishAddresses == {100, 200}
PublishTtls == {3, 7}
AppKeyIndexes == {0, 1}
Aids == {10, 20}
Nids == {5, 6}

\* OutboundPublishMessage { element_address, model_identifier, payload }
OutboundPublishMessages ==
    [element_address : ElementAddresses, model_identifier : ModelIdentifiers,
     payload : Payloads]

\* a publication entry of the network configuration
Publications ==
    [element_address : ElementAddresses, model_identifier : ModelIdentifiers,
     publish_address : PublishAddresses, publish_ttl : PublishTtls,
     app_key_index : AppKeyIndexes]

\* an app key entry of the network configuration
AppKeys == [index : AppKeyIndexes, aid : Aids]

\* a publication of the other element, with every other value different
OtherPublication(p) ==
    [p EXCEPT !.element_address = 3 - @, !.publish_address = 300 - @,
              !.publish_ttl = 10 - @, !.app_key_index = 1 - @]

\* the publication tables tried: empty, one entry, and one entry beside an
\* entry of the other element
PublicationSets ==
    {{}} \cup {{p} : p \in Publications}
         \cup {{p, OtherPublication(p)} : p \in Publications}

\* the app key tables tried: at most one key per index
AppKeySets ==
    {q \in SUBSET AppKeys : \A a, b \in q : a.index = b.index => a = b}

\* configuration().network(): None, or a network with its nid, its
\* publications and its app keys
NoNetwork == [present |-> FALSE, nid |-> 0, publications |-> {}, app_keys |-> {}]
Networks ==
    {[present |-> TRUE, nid |-> n, publications |-> ps, app_keys |-> ks] :
        n \in Nids, ps \in PublicationSets, ks \in AppKeySets}
PubConfigs == {NoNetwork} \cup Networks

\* network.find_publication(element_address, model_identifier)
find_publication(network, element_address, model_identifier) ==
    {p \in network.publications :
        /\ p.element_address = element_address
        /\ p.model_identifier = model_identifier}

\* network.find_app_key_by_index(app_key_index)
find_app_key_by_index(network, app_key_index) ==
    {k \in network.app_keys : k.index = app_key_index}

\* an AccessMessage with the source and destination addresses exchanged
AccessMessageSwapped(network, publication, app_key_details, publish) ==
    [ttl |-> publication.publish_ttl, network_key |-> network.nid, ivi |-> 0,
     nid |-> network.nid, akf |-> TRUE, aid |-> app_key_details.aid,
     src |-> publication.publish_address, dst |-> publish.element_address,
     payload |-> publish.payload]

\* Node::publish: the AccessMessage built from the network, the publication,
\* the app key and the publish message
AccessMessageOf(network, publication, app_key_details, publish) ==
    [ttl |-> publication.publish_ttl, network_key |-> network.nid, ivi |-> 0,
     nid |-> network.nid, akf |-> TRUE, aid |-> app_key_details.aid,
     src |-> publish.element_address, dst |-> publication.publish_address,
     payload |-> publish.payload]

\* Node::publish: how the three nested lookups end, and the message built
\* when all of them find something
PublishResolve(cfg, publish) ==
    IF ~cfg.present THEN [resolution |-> "no_network", messages |-> {}]
    ELSE LET found == find_publication(cfg, publish.element_address,
                                       publish.model_identifier)
         IN  IF found = {}
             THEN [resolution |-> "no_publication", messages |-> {}]
             ELSE LET publication == CHOOSE p \in found : TRUE
                      keys == find_app_key_by_index(cfg, publication.app_key_index)
                  IN  IF keys = {}
                      THEN [resolution |-> "no_app_key", messages |-> {}]
                      ELSE [resolution |-> "found",
                            messages |-> {AccessMessageOf(cfg, publication,
                                              CHOOSE k \in keys : TRUE,
                                              publish)}]

\* Node::publish(publish): process_outbound is called when the lookups
\* resolve and its Err is returned by `?`; everything else returns Ok(())
publish ==
    /\ pubResult = "none"
    /\ LET r == PublishResolve(pubConfig, pubMessage) IN
       IF PublishForwards(r.resolution)
       THEN /\ forwarded' = <<CHOOSE m \in r.messages : TRUE>>
            /\ \E result \in UnitResults : pubResult' = result
       ELSE /\ forwarded' = <<>>
            /\ pubResult' = "Ok"
    /\ UNCHANGED <<uuid, transmits, pubConfig, pubMessage>>
    /\ UNCHANGED <<sigVars, nodeVars, slotVars, uartVars>>

NextPublish == publish

\* the beacon and the publish resolution at rest
InitPure ==
    /\ uuid = ExampleUuid
    /\ transmits = <<>>
    /\ pubConfig = NoNetwork
    /\ pubMessage = [element_address |-> 1, model_identifier |-> "m1",
                     payload |-> "p1"]
    /\ forwarded = <<>>
    /\ pubResult = "none"

(***************************************************************************)
(* Part IV: SignalSlot (kernel/src/system/signal.rs)                       *)
(***************************************************************************)

\* an acquire that only loads the flag
FreeAfterLoad(f) == f

\* acquire: self.free.swap(false, Ordering::AcqRel) leaves false
FreeAfterSwap(f) == FALSE

\* SignalSlot::default
InitSlot ==
    /\ free = TRUE
    /\ acq = [c \in Ctx |-> "none"]
    /\ grants = 0

\* a context starts acquire()
CallAcquire(c) ==
    /\ cpc[c] = "idle"
    /\ calls < MaxCalls
    /\ calls' = calls + 1
    /\ cop' = [cop EXCEPT ![c] = "acquire"]
    /\ cwaker' = [cwaker EXCEPT ![c] = NoWaker]
    /\ cresult' = [cresult EXCEPT ![c] = "none"]
    /\ cpc' = [cpc EXCEPT ![c] = "swap"]
    /\ acq' = [acq EXCEPT ![c] = "none"]
    /\ UNCHANGED <<sigState, lock, clocal, woken, sigCount, lastReadyN,
                   lastSignal, lastWait, shadowed>>
    /\ UNCHANGED <<free, grants>>
    /\ UNCHANGED <<nodeVars, pureVars, uartVars>>

\* SignalSlot::acquire: the swap decides the value returned; on true the
\* context goes on into self.signal.reset() and returns after it
acquire(c) ==
    /\ cpc[c] = "swap"
    /\ free' = FreeAfterSwap(free)
    /\ acq' = [acq EXCEPT ![c] = IF free THEN "true" ELSE "false"]
    /\ grants' = IF free THEN grants + 1 ELSE grants
    /\ IF free
       THEN /\ cop' = [cop EXCEPT ![c] = "reset"]
            /\ cpc' = [cpc EXCEPT ![c] = "lock"]
            /\ UNCHANGED cresult
       ELSE /\ cpc' = [cpc EXCEPT ![c] = "idle"]
            /\ cresult' = [cresult EXCEPT ![c] = "false"]
            /\ UNCHANGED cop
    /\ UNCHANGED <<sigState, lock, cwaker, clocal, woken, calls, sigCount,
                   lastReadyN, lastSignal, lastWait, shadowed>>
    /\ UNCHANGED <<nodeVars, pureVars, uartVars>>

\* SignalSlot::release: self.free.store(true, Ordering::Release)
release(c) ==
    /\ cpc[c] = "idle"
    /\ calls < MaxCalls
    /\ calls' = calls + 1
    /\ free' = TRUE
    /\ grants' = 0
    /\ UNCHANGED acq
    /\ UNCHANGED <<sigState, lock, cpc, cop, cwaker, clocal, cresult, woken,
                   sigCount, lastReadyN, lastSignal, lastWait, shadowed>>
    /\ UNCHANGED <<nodeVars, pureVars, uartVars>>

\* SignalSlot: acquire and release, with poll_wait and signal passed on to
\* the Signal
NextSlot ==
    \/ NextSignal
    \/ \E c \in Ctx :
        \/ CallAcquire(c)
        \/ acquire(c)
        \/ release(c)

(***************************************************************************)
(* Part V: src/driver/uart/dma.rs, the requests of UartActor and the       *)
(* futures they return.                                                    *)
(***************************************************************************)

\* const READY_STATE: bool = false; const BUSY_STATE: bool = true;
READY_STATE == FALSE
BUSY_STATE == TRUE

\* crate::synchronization::Signal<()>, the wake slot: signal stores the
\* notification, reset clears it, poll_wait takes a stored notification
\* (Ready) or registers the waiter (Pending)
TimeoutSignal(s) == "Signaled"
TimeoutReset(s) == "None"
TimeoutPollWait(s) ==
    IF s = "Signaled" THEN [state |-> "None", ready |-> TRUE]
    ELSE [state |-> "Waiting", ready |-> FALSE]

\* a request handler that does not look at the flag
AcceptsAlways(flag) == TRUE

\* READY_STATE == shared.rx_state.swap(BUSY_STATE, SeqCst), and the same on
\* tx_state: the request is accepted when the swap finds the flag READY
Accepts(flag) == flag = READY_STATE

\* what a request may touch besides the flags
UartSnapshot ==
    [rx_timeout |-> rx_timeout, scheduled |-> scheduled,
     rxFutures |-> rxFutures, txFutures |-> txFutures]

\* Shared::new
InitUart ==
    /\ rx_state = READY_STATE
    /\ tx_state = READY_STATE
    /\ rx_timeout = "None"
    /\ timeoutOf = 0
    /\ rxFutures = {}
    /\ txFutures = {}
    /\ scheduled = {}
    /\ opN = 0
    /\ lastOp = NoRecord
    /\ cancels = {}

\* UartReader::read: on READY the queue's read future is created and
\* returned inside an RxFuture; on BUSY Err(RxInProgress)
read ==
    /\ opN < MaxOps
    /\ opN' = opN + 1
    /\ rx_state' = BUSY_STATE
    /\ rxFutures' = IF Accepts(rx_state) THEN rxFutures \cup {opN + 1}
                    ELSE rxFutures
    /\ UNCHANGED <<tx_state, rx_timeout, timeoutOf, txFutures, scheduled,
                   cancels>>
    /\ lastOp' = [tag |-> "read", id |-> opN + 1,
                  busy |-> rx_state = BUSY_STATE,
                  result |-> IF Accepts(rx_state) THEN "Future"
                             ELSE "RxInProgress",
                  pre |-> UartSnapshot,
                  post |-> [rx_timeout |-> rx_timeout',
                            scheduled |-> scheduled',
                            rxFutures |-> rxFutures',
                            txFutures |-> txFutures']]
    /\ UNCHANGED <<sigVars, nodeVars, pureVars, slotVars>>

\* UartReader::read_with_timeout: as read, and on READY rx_timeout.reset()
\* and a ReadTimeout scheduled for the controller
read_with_timeout ==
    /\ opN < MaxOps
    /\ opN' = opN + 1
    /\ rx_state' = BUSY_STATE
    /\ IF Accepts(rx_state)
       THEN /\ rxFutures' = rxFutures \cup {opN + 1}
            /\ rx_timeout' = TimeoutReset(rx_timeout)
            /\ timeoutOf' = 0
            /\ scheduled' = scheduled \cup {opN + 1}
       ELSE UNCHANGED <<rxFutures, rx_timeout, timeoutOf, scheduled>>
    /\ UNCHANGED <<tx_state, txFutures, cancels>>
    /\ lastOp' = [tag |-> "read_with_timeout", id |-> opN + 1,
                  busy |-> rx_state = BUSY_STATE,
                  result |-> IF Accepts(rx_state) THEN "Future"
                             ELSE "RxInProgress",
                  pre |-> UartSnapshot,
                  post |-> [rx_timeout |-> rx_timeout',
                            scheduled |-> scheduled',
                            rxFutures |-> rxFutures',
                            txFutures |-> txFutures']]
    /\ UNCHANGED <<sigVars, nodeVars, pureVars, slotVars>>

\* UartWriter::write: on READY the queue's write future is created and
\* returned inside a TxFuture; on BUSY Err(TxInProgress)
write ==
    /\ opN < MaxOps
    /\ opN' = opN + 1
    /\ tx_state' = BUSY_STATE
    /\ txFutures' = IF Accepts(tx_state) THEN txFutures \cup {opN + 1}
                    ELSE txFutures
    /\ UNCHANGED <<rx_state, rx_timeout, timeoutOf, rxFutures, scheduled,
                   cancels>>
    /\ lastOp' = [tag |-> "write", id |-> opN + 1,
                  busy |-> tx_state = BUSY_STATE,
                  result |-> IF Accepts(tx_state) THEN "Future"
                             ELSE "TxInProgress",
                  pre |-> UartSnapshot,
                  post |-> [rx_timeout |-> rx_timeout',
                            scheduled |-> scheduled',
                            rxFutures |-> rxFutures',
                            txFutures |-> txFutures']]
    /\ UNCHANGED <<sigVars, nodeVars, pureVars, slotVars>>

\* NotifyHandler<ReadTimeout> for UartController: the scheduler delivers a
\* ReadTimeout, on_notify signals rx_timeout
on_notify_ReadTimeout ==
    /\ \E id \in scheduled :
        /\ scheduled' = scheduled \ {id}
        /\ timeoutOf' = id
    /\ rx_timeout' = TimeoutSignal(rx_timeout)
    /\ UNCHANGED <<rx_state, tx_state, rxFutures, txFutures, opN, lastOp,
                   cancels>>
    /\ UNCHANGED <<sigVars, nodeVars, pureVars, slotVars>>

\* RxFuture::poll: a notification found in rx_timeout cancels the queue's
\* read; then the queue's read is polled, and Ready stores READY_STATE
RxFuture_poll ==
    /\ \E f \in rxFutures, r \in {"Pending", "Ready"} :
        LET w == TimeoutPollWait(rx_timeout) IN
        /\ rx_timeout' = w.state
        /\ cancels' = IF w.ready
                      THEN cancels \cup {[read |-> f, by |-> timeoutOf]}
                      ELSE cancels
        /\ timeoutOf' = IF w.ready THEN 0 ELSE timeoutOf
        /\ IF r = "Ready"
           THEN /\ rx_state' = READY_STATE
                /\ rxFutures' = rxFutures \ {f}
           ELSE UNCHANGED <<rx_state, rxFutures>>
    /\ UNCHANGED <<tx_state, txFutures, scheduled, opN, lastOp>>
    /\ UNCHANGED <<sigVars, nodeVars, pureVars, slotVars>>

\* TxFuture::poll: the queue's write is polled, and Ready stores READY_STATE
TxFuture_poll ==
    /\ \E f \in txFutures, r \in {"Pending", "Ready"} :
        IF r = "Ready"
        THEN /\ tx_state' = READY_STATE
             /\ txFutures' = txFutures \ {f}
        ELSE UNCHANGED <<tx_state, txFutures>>
    /\ UNCHANGED <<rx_state, rx_timeout, timeoutOf, rxFutures, scheduled, opN,
                   lastOp, cancels>>
    /\ UNCHANGED <<sigVars, nodeVars, pureVars, slotVars>>

\* the requester drops an RxFuture before it is Ready: RxFuture has no Drop,
\* so nothing else happens
drop_RxFuture ==
    /\ \E f \in rxFutures : rxFutures' = rxFutures \ {f}
    /\ UNCHANGED <<rx_state, tx_state, rx_timeout, timeoutOf, txFutures,
                   scheduled, opN, lastOp, cancels>>
    /\ UNCHANGED <<sigVars, nodeVars, pureVars, slotVars>>

\* the requester drops a TxFuture before it is Ready: TxFuture has no Drop
drop_TxFuture ==
    /\ \E f \in txFutures : txFutures' = txFutures \ {f}
    /\ UNCHANGED <<rx_state, tx_state, rx_timeout, timeoutOf, rxFutures,
                   scheduled, opN, lastOp, cancels>>
    /\ UNCHANGED <<sigVars, nodeVars, pureVars, slotVars>>

NextUart ==
    \/ read
    \/ read_with_timeout
    \/ write
    \/ on_notify_ReadTimeout
    \/ RxFuture_poll
    \/ TxFuture_poll
    \/ drop_RxFuture
    \/ drop_TxFuture

vars == <<sigVars, nodeVars, pureVars, slotVars, uartVars>>

\* the state after construction: Signal::new, Node::new, SignalSlot::default
\* and Shared::new
Init == InitSignal /\ InitNode /\ InitPure /\ InitSlot /\ InitUart

\* the node before startup, with any of the sampled UUIDs in the vault
InitBeacon ==
    /\ InitSignal /\ InitNode /\ InitSlot /\ InitUart
    /\ uuid \in UuidSamples
    /\ transmits = <<>>
    /\ pubConfig = NoNetwork
    /\ pubMessage = [element_address |-> 1, model_identifier |-> "m1",
                     payload |-> "p1"]
    /\ forwarded = <<>>
    /\ pubResult = "none"

\* the node before startup, with any configuration and any publish message
InitPublish ==
    /\ InitSignal /\ InitNode /\ InitSlot /\ InitUart
    /\ uuid = ExampleUuid
    /\ transmits = <<>>
    /\ pubConfig \in PubConfigs
    /\ pubMessage \in OutboundPublishMessages
    /\ forwarded = <<>>
    /\ pubResult = "none"

\* the beacon alone
SpecBeacon == InitBeacon /\ [][NextBeacon]_vars

\* the publish resolution alone
SpecPublish == InitPublish /\ [][NextPublish]_vars

\* the wake slot alone: the node does not move
SpecSignal == Init /\ [][NextSignal]_vars

\* the node alone: the kernel wake slot does not move
SpecNode == Init /\ [][NextNode]_vars

\* the wake slot inside its SignalSlot
SpecSlot == Init /\ [][NextSlot]_vars

\* the DMA UART alone
SpecUart == Init /\ [][NextUart]_vars

\* a radio with traffic at every turn: a receive completes again as soon as
\* the one before has been taken
InboundFlood ==
    /\ rx = "none"
    /\ \E r \in {"ok", "err"} : rx' = r
    /\ UNCHANGED <<pc, state, pipelineState, connects, control, timerFired,
                   chanInit, outbound, publish_outbound, suspended, call,
                   inboundN, controlN, sendN, dropped, lastIter, nodeResets>>
    /\ UNCHANGED <<accepted, takenOrder, resumed, cutCall, startup, lastApply>>
    /\ UNCHANGED iter
    /\ UNCHANGED <<sigVars, pureVars, slotVars, uartVars>>

\* process_inbound completes for a frame that is not a provisioning step of
\* this node: the Pipeline yields nothing that changes the state
process_inbound_foreign == process_inbound_done /\ state' = state

\* the node under sustained inbound traffic of such frames, with producers
\* sending to the mailboxes and control messages being posted; no tick
NextFlood ==
    \/ InboundFlood
    \/ ControlSignal
    \/ control_wins
    \/ \E box \in Boxes : send(box)
    \/ send_resume
    \/ run_start
    \/ do_loop
    \/ select_receive
    \/ select_outbound
    \/ select_publish
    \/ beacon_first_done
    \/ unit_call_done
    \/ process_inbound_foreign

\* the executor polls run() whenever it can progress, and every awaited
\* Pipeline / Transmitter call completes: each step of run() that stays
\* possible is taken, a source that is the first ready one of its select
\* again and again is returned, and a control message that finds do_loop
\* Pending again and again is taken
FloodFairness ==
    /\ SF_vars(control_wins)
    /\ WF_vars(run_start)
    /\ WF_vars(do_loop)
    /\ WF_vars(beacon_first_done)
    /\ WF_vars(unit_call_done)
    /\ WF_vars(process_inbound_foreign)
    /\ WF_vars(send_resume)
    /\ SF_vars(select_receive)
    /\ SF_vars(select_outbound)
    /\ SF_vars(select_publish)

\* the node under sustained inbound traffic, with a fair executor
SpecFlood == Init /\ [][NextFlood]_vars /\ FloodFairness

(***************************************************************************)
(* Properties of the wake slot (checked under SpecSignal).                 *)
(***************************************************************************)
InCS == {"read", "write", "unlock"}

\* C5: the read-modify-write of the slot state is atomic (at most one
\* context is inside the critical section, and it is the lock holder), and no
\* signal is lost: a waiter registered when signal() ran has been woken, and
\* while a delivered signal has been neither consumed by a Ready wait nor
\* discarded by reset, the slot is Signaled, so the next wait returns Ready.
C5_AtomicNoLostSignal ==
    /\ Cardinality({c \in Ctx : cpc[c] \in InCS}) <= 1
    /\ \A c \in Ctx : cpc[c] \in InCS => lock = c
    /\ sigCount >= 1 => sigState.tag = "Signaled"
    /\ (lastSignal.tag = "signal" /\ lastSignal.pre.tag = "Waiting") =>
          \A w \in lastSignal.pre.waiters : woken[w] >= 1

\* C5 witness: the interrupt side has delivered a signal inside the critical
\* section while the main context, inside poll_wait, waits for the lock.
C5_Witness ==
    /\ cop["irq"] = "signal" /\ cpc["irq"] = "unlock"
    /\ cop["main"] = "poll_wait" /\ cpc["main"] = "lock"
    /\ sigCount >= 1

\* C6: a wait returns Ready exactly when at least one signal() has completed
\* since the previous Ready wait; n >= 1 signals make one wait Ready and the
\* following waits Pending until a further signal().
C6_Coalescing ==
    lastWait.tag = "poll_wait" =>
        (lastWait.result = "Ready" <=> lastWait.sigs >= 1)

\* C6 witness: two or more signals were consumed by one Ready wait and the
\* wait after it returned Pending.
C6_Witness ==
    /\ lastReadyN >= 2
    /\ lastWait.tag = "poll_wait"
    /\ lastWait.result = "Pending"
    /\ lastWait.sigs = 0

\* the transition function of signal(): Idle -> Signaled, nobody woken;
\* Waiting(w) -> Signaled, w woken; Signaled -> Signaled, nobody woken
SignalTransitions ==
    lastSignal.tag = "signal" =>
        /\ lastSignal.post = Signaled
        /\ lastSignal.woke =
              IF lastSignal.pre.tag = "Waiting" THEN lastSignal.pre.waiters ELSE {}

\* C7: signal() follows its transition function and never blocks: a context
\* that has called signal() and stands at the lock always finds it free.
C7_SignalNeverBlocks ==
    /\ SignalTransitions
    /\ \A c \in Ctx : (cop[c] = "signal" /\ cpc[c] = "lock") => lock = NoCtx

\* C8: wait() from Idle registers the caller and is Pending; from Signaled
\* it goes to Idle and is Ready; from Waiting it changes nothing and is
\* Pending.
C8_WaitTransitions ==
    lastWait.tag = "poll_wait" =>
        CASE lastWait.pre.tag = "None" ->
                /\ lastWait.post = Waiting(lastWait.waker)
                /\ lastWait.result = "Pending"
          [] lastWait.pre.tag = "Signaled" ->
                /\ lastWait.post = StateNone
                /\ lastWait.result = "Ready"
          [] lastWait.pre.tag = "Waiting" ->
                /\ lastWait.post = lastWait.pre
                /\ lastWait.result = "Pending"

\* C8 witness: a wait found the slot Signaled and returned Ready after a
\* waiter had been woken.
C8_Witness ==
    /\ lastWait.tag = "poll_wait"
    /\ lastWait.pre.tag = "Signaled"
    /\ lastWait.result = "Ready"
    /\ \E w \in Wakers : woken[w] >= 1

\* C9: a wait with a waker other than the registered one leaves the
\* registration unchanged and is Pending; the registered waker is never one
\* of those later callers, and a signal() wakes none of them.
C9_SecondWaiter ==
    /\ (lastWait.tag = "poll_wait" /\ lastWait.pre.tag = "Waiting"
            /\ lastWait.waker \notin lastWait.pre.waiters) =>
          (lastWait.post = lastWait.pre /\ lastWait.result = "Pending")
    /\ sigState.tag = "Waiting" => sigState.waiters \cap shadowed = {}
    /\ lastSignal.tag = "signal" => lastSignal.woke \cap lastSignal.shadowed = {}

\* C9 witness: a signal woke the first waiter while a second waiter had
\* polled behind it, and that second waiter has never been woken.
C9_Witness ==
    /\ lastSignal.tag = "signal"
    /\ lastSignal.woke # {}
    /\ \E w \in lastSignal.shadowed : woken[w] = 0

\* C10: the slot is exactly one of Idle, Waiting(one waiter), Signaled, and
\* right after a wait that returned Ready it is Idle.
C10_SlotInvariant ==
    /\ sigState.tag \in {"None", "Waiting", "Signaled"}
    /\ sigState.tag = "Waiting" =>
          (sigState.waiters \subseteq Wakers /\ Cardinality(sigState.waiters) = 1)
    /\ sigState.tag # "Waiting" => sigState.waiters = {}
    /\ \A c \in Ctx :
          (cop[c] = "poll_wait" /\ cpc[c] = "unlock" /\ cresult[c] = "Ready")
              => sigState = StateNone

\* C10 witness: a wait returns Ready while the other context holds a
\* registration attempt at the lock.
C10_Witness ==
    \E c \in Ctx :
        /\ cop[c] = "poll_wait" /\ cpc[c] = "unlock" /\ cresult[c] = "Ready"
        /\ \E d \in Ctx \ {c} : cop[d] = "poll_wait" /\ cpc[d] = "lock"

(***************************************************************************)
(* Properties of the node (checked under SpecNode).                        *)
(***************************************************************************)

\* C1: over any run the application elements are connected exactly once, on
\* the first entry into Provisioned: never more than once, and once whenever
\* the node is Provisioned.
C1_ConnectExactlyOnce ==
    /\ connects <= 1
    /\ state = Provisioned => connects = 1

\* C2: an iteration that ended with a DeviceError makes run() return that
\* error; no further iteration is started after it.
C2_ErrorEndsRun ==
    lastIter = "err" => pc = "returned"

\* C3: a control message abandons an iteration only in its wait on the
\* sources, never one that has started a Pipeline call or a beacon transmit
\* that has not completed.
C3_CallNeverCutOff ==
    lastIter # "cut"

\* C4: a send never completes without its item having been enqueued: every
\* item passed to send is queued, returned by next, or held by a suspended
\* sender.
C4_NoItemDropped ==
    \A item \in 1..sendN :
        \/ \E i \in 1..Len(outbound) : outbound[i] = item
        \/ \E i \in 1..Len(publish_outbound) : publish_outbound[i] = item
        \/ item \in taken
        \/ \E s \in suspended : s.item = item

\* the items of sequence s at the positions where step occurs
Positions(s, step) == {i \in 1..Len(s) : s[i] = step}

\* C11: each mailbox is FIFO: under any interleaving of sends and receives,
\* the items next() has returned, followed by the items still queued, are
\* the accepted items in the order their sends were accepted, and no item
\* occurs twice.
C11_MailboxFifo ==
    \A box \in Boxes :
        /\ accepted[box] = takenOrder[box] \o Queue(box)
        /\ \A i, j \in 1..Len(accepted[box]) :
               i # j => accepted[box][i] # accepted[box][j]

\* C11 witness: three sends to the outbound mailbox have been followed by
\* three receives.
C11_Witness ==
    /\ Len(accepted["outbound"]) >= 3
    /\ Len(takenOrder["outbound"]) = 3

\* C12: a send issued on a full mailbox does not complete and does not
\* enqueue: a suspended send's item is in no queue and was neither dropped
\* nor received, and no mailbox holds more than its capacity. A suspended
\* send that completed has enqueued, once and in its own mailbox, the item
\* it was called with.
C12_Backpressure ==
    /\ \A s \in suspended :
           /\ \A box \in Boxes : s.item \notin Range(accepted[box])
           /\ s.item \notin dropped
           /\ s.item \notin taken
    /\ \A box \in Boxes : Len(Queue(box)) <= ChannelCapacity
    /\ \A s \in resumed :
           /\ s \notin suspended
           /\ Cardinality(Positions(accepted[s.box], s.item)) = 1
           /\ \A box \in Boxes \ {s.box} : s.item \notin Range(accepted[box])

\* C12 witness: a send that was suspended on the full outbound mailbox has
\* completed after the consumer removed an item, and its item is queued.
C12_Witness ==
    \E s \in resumed :
        /\ s.box = "outbound"
        /\ s.item \in Range(outbound)
        /\ Len(takenOrder["outbound"]) >= 1

\* C13: in every reachable state each of the two mailboxes holds at most 3
\* items.
C13_CapacityBound ==
    /\ Len(outbound) <= 3
    /\ Len(publish_outbound) <= 3

\* C13 witness: the outbound mailbox holds 3 items and a fourth send waits.
C13_Witness ==
    /\ Len(outbound) = 3
    /\ \E s \in suspended : s.box = "outbound"

\* C14: a process_inbound result of Provisioned applied in Unprovisioned
\* writes the state, notifies the Pipeline and connects the elements, each
\* once; the same result applied in Provisioned connects nothing, writes no
\* state and notifies nothing.
C14_ProvisionedOnce ==
    lastApply.tag = "apply" =>
        /\ (lastApply.from = Unprovisioned /\ lastApply.result = Provisioned)
               => /\ state = Provisioned
                  /\ pipelineState = Provisioned
                  /\ lastApply.wrote /\ lastApply.notified
                  /\ connects = lastApply.connectsBefore + 1
        /\ (lastApply.from = Provisioned /\ lastApply.result = Provisioned)
               => /\ state = Provisioned
                  /\ ~lastApply.wrote /\ ~lastApply.notified
                  /\ connects = lastApply.connectsBefore

\* C14 witness: a second inbound message mapped to Provisioned has been
\* applied in Provisioned, after one connect.
C14_Witness ==
    /\ lastApply.tag = "apply"
    /\ lastApply.from = Provisioned /\ lastApply.result = Provisioned
    /\ inboundN = 2
    /\ connects = 1

\* C15: the state changes only at startup or when process_inbound completes,
\* from Unprovisioned only to Provisioning or Provisioned and from
\* Provisioning only to Provisioned; timer, mailbox and control steps leave
\* it as it is.
C15_TransitionTable ==
    [][state' # state =>
        /\ \/ pc = "start"
           \/ pc = "call" /\ call.kind = "process_inbound"
        /\ state = Unprovisioned => state' \in {Provisioning, Provisioned}
        /\ state = Provisioning => state' = Provisioned]_vars

\* C16: the Pipeline is notified once at startup, as the last startup step,
\* and then exactly when an applied result changes the state, so that from
\* the first iteration on the state last notified is the node's state, also
\* after an iteration that a control message ended.
C16_PipelineInSync ==
    /\ pc = "start" => pipelineState = "none"
    /\ pc \in {"loop", "wait", "call"} => pipelineState = state
    /\ (startup.tag = "ran" /\ startup.ok) =>
           Positions(startup.steps, "pipeline_state") = {Len(startup.steps)}
    /\ lastApply.tag = "apply" =>
           /\ lastApply.notified <=> state # lastApply.from
           /\ lastApply.notified => pipelineState = lastApply.result

\* C16 witness: the state was changed to Provisioning by an inbound message
\* and a later iteration was ended by a control message.
C16_Witness ==
    /\ lastIter \in {"abandoned", "cut"}
    /\ state = Provisioning
    /\ pipelineState = Provisioning

\* C17: when startup has succeeded and before the first iteration starts, the
\* mailboxes are initialized, the state is Provisioned with the elements
\* connected once if the configuration is provisioned and Unprovisioned with
\* no connect otherwise, and the Pipeline has been notified of that state.
C17_StartupOrdering ==
    /\ pc = "start" => state = Unprovisioned /\ ~chanInit /\ connects = 0
    /\ (startup.tag = "ran" /\ startup.ok) =>
           /\ pc = "loop"
           /\ chanInit
           /\ state = IF startup.provisioned THEN Provisioned ELSE Unprovisioned
           /\ connects = IF startup.provisioned THEN 1 ELSE 0
           /\ pipelineState = state

\* C17 witness: startup with a provisioned configuration has completed and
\* the first iteration has not started.
C17_Witness ==
    /\ startup.tag = "ran" /\ startup.ok /\ startup.provisioned
    /\ pc = "loop"

\* C18: a successful first load is the only storage call of startup; a
\* failed one is followed by exactly one reset and one further initialize,
\* whose success lets startup continue into the loop and whose failure
\* makes run() return before the mailboxes are initialized.
C18_StartupRecovery ==
    startup.tag = "ran" =>
        /\ startup.init1 = "Ok" =>
               /\ startup.calls = <<"initialize">>
               /\ pc = "loop" /\ chanInit
        /\ startup.init1 = "Err" =>
               /\ startup.calls = <<"initialize", "reset", "initialize">>
               /\ startup.init2 = "Ok" => pc = "loop" /\ chanInit
               /\ startup.init2 = "Err" => pc = "returned" /\ ~chanInit

\* C18 witness: the first load failed, the load after the reset succeeded
\* and run() is at its loop.
C18_Witness ==
    /\ startup.tag = "ran"
    /\ startup.init1 = "Err" /\ startup.init2 = "Ok"
    /\ pc = "loop"

\* C19: run() has returned only from a failed startup, before the mailboxes
\* were initialized; whatever way an iteration ended, run() is at the top of
\* its loop again.
C19_NoExitAfterStartup ==
    /\ pc = "returned" => startup.tag = "ran" /\ ~startup.ok /\ ~chanInit
    /\ lastIter # "none" => pc = "loop"

\* C19 witness: an iteration ended with an error and run() is at the top of
\* its loop.
C19_Witness ==
    /\ lastIter = "err"
    /\ pc = "loop"

\* C20: no message taken from the outbound mailbox is discarded: the
\* process_outbound call it was passed to is never dropped before it
\* completes.
C20_DequeuedConsumed ==
    \A item \in Range(takenOrder["outbound"]) :
        ~(cutCall.kind = "process_outbound" /\ cutCall.item = item)

\* the step in which select returns Either::Right with control message m
ControlStep(m) == control = m /\ control' = "None"

\* the name under which iter records mailbox box as the winning source
SourceOf(box) == IF box = "outbound" THEN "outbound" ELSE "publish"

\* the queue of mailbox box in the next state
QueueNext(box) == IF box = "outbound" THEN outbound' ELSE publish_outbound'

\* C21: an iteration of the Provisioned loop that the ticker won starts
\* exactly one call, try_retransmit, and leaves the state Provisioned; run()
\* is then in that call or back at the top of its loop.
C21_RetransmitPerTick ==
    (iter.tag = "iter" /\ iter.from = Provisioned /\ iter.winner = "ticker") =>
        /\ iter.calls = <<"try_retransmit">>
        /\ state = Provisioned
        /\ \/ pc = "call" /\ call.kind = "try_retransmit"
           \/ pc = "loop"

\* C21 witness: with both mailboxes empty and no inbound message, a tick's
\* try_retransmit has completed and the next iteration is about to start.
C21_Witness ==
    /\ iter.tag = "iter" /\ iter.from = Provisioned /\ iter.winner = "ticker"
    /\ pc = "loop" /\ lastIter = "ok"
    /\ outbound = <<>> /\ publish_outbound = <<>> /\ rx = "none"

\* C22: an iteration of the Unprovisioned loop that the ticker won and that
\* has completed made exactly one transmit call, and the state is still
\* Unprovisioned.
C22_OneBeaconPerTick ==
    (/\ iter.tag = "iter" /\ iter.from = Unprovisioned
     /\ iter.winner = "ticker"
     /\ pc = "loop" /\ lastIter = "ok") =>
        /\ Cardinality(Positions(iter.calls, "transmit_bytes")) = 1
        /\ state = Unprovisioned

\* C24: an iteration of the Provisioning loop handles one source: when the
\* ticker won it starts try_retransmit and nothing else and the state stays
\* Provisioning; when a received message won it starts process_inbound and
\* nothing else.
C24_ProvisioningOneSource ==
    (iter.tag = "iter" /\ iter.from = Provisioning) =>
        /\ Len(iter.calls) <= 1
        /\ iter.winner = "ticker" =>
               iter.calls = <<"try_retransmit">> /\ state = Provisioning
        /\ iter.winner = "receive" => iter.calls = <<"process_inbound">>

\* C24 witness: in Provisioning a tick's try_retransmit has completed.
C24_Witness ==
    /\ iter.tag = "iter" /\ iter.from = Provisioning
    /\ iter.winner = "ticker"
    /\ pc = "loop" /\ lastIter = "ok"

\* C25: a publish message that resolves to no network, no publication or no
\* app key ends its iteration with Ok and without any call, and the message
\* is neither queued again nor held for a retry.
C25_PublishNoMatch ==
    (iter.tag = "iter" /\ iter.winner = "publish"
       /\ iter.resolution # "found") =>
        /\ iter.calls = <<>>
        /\ pc = "loop" /\ lastIter = "ok" /\ call = NoCall
        /\ LET item == takenOrder["publish_outbound"]
                           [Len(takenOrder["publish_outbound"])]
           IN  /\ \A box \in Boxes : item \notin Range(Queue(box))
               /\ \A x \in suspended : x.item # item

\* C25 witness: a publish message found no publication while another one
\* is still queued behind it.
C25_Witness ==
    /\ iter.tag = "iter" /\ iter.winner = "publish"
    /\ iter.resolution = "no_publication"
    /\ Len(publish_outbound) >= 1

\* C27: the step that handles a ForceReset calls node_reset once and leaves
\* the node's state, the state notified to the Pipeline, both mailboxes, the
\* connects made and the mailboxes' initialization as they were, and run()
\* goes to the top of its loop.
C27_ForceResetFrame ==
    [][ControlStep("ForceReset") =>
        /\ nodeResets' = nodeResets + 1
        /\ UNCHANGED <<state, pipelineState, outbound, publish_outbound,
                       connects, chanInit>>
        /\ pc' = "loop"]_vars

\* C27 witness: a ForceReset has been handled in Provisioned with a message
\* queued in the outbound mailbox.
C27_Witness ==
    /\ nodeResets = 1
    /\ pc = "loop" /\ lastIter \in {"abandoned", "cut"}
    /\ state = Provisioned
    /\ Len(outbound) >= 1

\* C28: the step that handles a Shutdown changes neither the node's state,
\* the state notified to the Pipeline, the mailboxes, the connects nor the
\* configuration (no node_reset), and run() goes to the top of its loop
\* instead of returning.
C28_ShutdownFrame ==
    [][ControlStep("Shutdown") =>
        /\ UNCHANGED <<state, pipelineState, outbound, publish_outbound,
                       connects, chanInit, nodeResets>>
        /\ pc' = "loop"]_vars

\* C28 witness: a Shutdown has been handled while the loop waited in
\* Provisioning, and run() is at the top of its loop.
C28_Witness ==
    /\ pc = "loop" /\ lastIter = "abandoned"
    /\ nodeResets = 0
    /\ state = Provisioning

\* C29: a mailbox loses an item only in the step in which its own next()
\* is the source select returns, and then its head; every other step, a
\* control message's included, leaves the queue as it was or appends to it,
\* and a control message leaves a completed receive where it is.
C29_LosersLeaveNoTrace ==
    [][/\ \A box \in Boxes :
              \/ QueueNext(box) = Queue(box)
              \/ /\ accepted'[box] # accepted[box]
                 /\ QueueNext(box) = Append(Queue(box),
                                            accepted'[box][Len(accepted'[box])])
              \/ /\ iter.winner = "none" /\ iter'.winner = SourceOf(box)
                 /\ QueueNext(box) = Tail(Queue(box))
                 /\ takenOrder'[box] = Append(takenOrder[box], Head(Queue(box)))
       /\ (\E m \in MeshNodeMessage : ControlStep(m)) => rx' = rx]_vars

\* C29 witness: in Provisioned the ticker won an iteration while both
\* mailboxes held a message, and both messages are still queued.
C29_Witness ==
    /\ iter.tag = "iter" /\ iter.from = Provisioned
    /\ iter.winner = "ticker"
    /\ Len(outbound) >= 1 /\ Len(publish_outbound) >= 1

\* C30: the step in which the Provisioned loop's select returns handles the
\* first ready source in the order receive, ticker, outbound mailbox, publish
\* mailbox, and consumes nothing of the others.
C30_StructuralOrder ==
    [][(/\ pc = "wait" /\ pc' # "wait" /\ state = Provisioned
        /\ ~\E m \in MeshNodeMessage : ControlStep(m)) =>
        LET w == iter'.winner IN
        /\ RecvReady => w \in {"receive", "receive_err"}
        /\ (~RecvReady /\ TickReady) => w = "ticker"
        /\ (~RecvReady /\ ~TickReady /\ OutboundReady) => w = "outbound"
        /\ (~RecvReady /\ ~TickReady /\ ~OutboundReady) => w = "publish"
        /\ w \notin {"receive", "receive_err"} => rx' = rx
        /\ w # "outbound" => outbound' = outbound
        /\ w # "publish" => publish_outbound' = publish_outbound
        /\ Len(iter'.calls) <= 1]_vars

\* C30 witness: with a received message, a tick and both mailboxes ready,
\* the received message was handled and the two mailboxes still hold their
\* messages.
C30_Witness ==
    /\ iter.tag = "iter" /\ iter.from = Provisioned
    /\ iter.winner = "receive"
    /\ timerFired
    /\ Len(outbound) >= 1 /\ Len(publish_outbound) >= 1

\* C33: every iteration has its own Ticker. The period the select sees
\* completed is one that ran out during this iteration's wait, never one
\* left over from an earlier iteration; so the ticker's arm (a beacon in
\* Unprovisioned, try_retransmit in Provisioning and Provisioned) runs only
\* in an iteration whose wait lasted a full period with no received message
\* taken before, and an iteration another source ends first makes no
\* ticker call.
C33_FreshTimer ==
    iter.tag = "iter" =>
        /\ timerFired <=> iter.fired
        /\ iter.winner = "ticker" =>
              /\ iter.fired
              /\ iter.calls[Len(iter.calls)] =
                     (IF iter.from = Unprovisioned THEN "transmit_bytes"
                      ELSE "try_retransmit")
        /\ ~iter.fired => iter.winner # "ticker"
        /\ iter.winner \in {"receive", "receive_err", "outbound", "publish"} =>
              "try_retransmit" \notin Range(iter.calls)

\* C33 witness: after an iteration that took an outbound message, a later
\* iteration is ended by a received message before its Ticker's period is
\* over.
C33_Witness ==
    /\ iter.tag = "iter" /\ iter.from = Provisioned
    /\ iter.winner = "receive" /\ ~iter.fired /\ ~timerFired
    /\ Len(takenOrder["outbound"]) >= 1

\* C34: a mailbox item leaves its queue only by being returned by next(),
\* and only an iteration that read the state Provisioned has next() as a
\* source. A sender that suspended on a full mailbox has not been accepted,
\* faces a full mailbox while nothing has been taken from it, and has
\* completed only after next() returned an item of that mailbox.
C34_ReadOnlyInProvisioned ==
    /\ \A box \in Boxes : accepted[box] = takenOrder[box] \o Queue(box)
    /\ (iter.tag = "iter" /\ iter.winner \in {"outbound", "publish"}) =>
           iter.from = Provisioned
    /\ (iter.tag = "iter" /\ iter.from # Provisioned) =>
           "process_outbound" \notin Range(iter.calls)
    /\ \A s \in suspended :
           /\ s.item \notin Range(accepted[s.box])
           /\ takenOrder[s.box] = <<>> => Len(Queue(s.box)) = ChannelCapacity
    /\ \A s \in resumed : takenOrder[s.box] # <<>>

\* C34 witness: in Provisioning the outbound mailbox holds three messages,
\* a fourth sender is suspended, and an iteration has been completed by the
\* ticker without taking any of them.
C34_Witness ==
    /\ state = Provisioning
    /\ iter.tag = "iter" /\ iter.from = Provisioning /\ iter.winner = "ticker"
    /\ pc = "loop"
    /\ Len(outbound) = ChannelCapacity
    /\ \E s \in suspended : s.box = "outbound"
    /\ takenOrder["outbound"] = <<>>

\* C35: an iteration whose select returned a receive that completed with
\* Err has ended with Ok: it started no call after the select (the only
\* call of the iteration is the beacon loop_unprovisioned transmits before
\* it waits), applied no process_inbound result, left the state as it was
\* read, and run() is at the top of its loop.
C35_ReceiveErrorIgnored ==
    (iter.tag = "iter" /\ iter.winner = "receive_err") =>
        /\ pc = "loop" /\ lastIter = "ok" /\ call = NoCall
        /\ iter.calls = (IF iter.from = Unprovisioned
                         THEN <<"transmit_bytes">> ELSE <<>>)
        /\ lastApply = NoRecord
        /\ state = iter.from

\* C35 witness: a receive error has ended an iteration in each of the
\* three states; this one in Provisioned with a message waiting in the
\* outbound mailbox.
C35_Witness ==
    /\ iter.tag = "iter" /\ iter.winner = "receive_err"
    /\ iter.from = Provisioned
    /\ Len(outbound) >= 1

\* C31 as claimed: a message queued in the outbound or publish mailbox is
\* eventually returned by next() (and so handed to process_outbound or to
\* publish), unless the node leaves Provisioned, whatever the other sources
\* of the select do.
C31_NoStarvation ==
    \A item \in 1..MaxSends :
        (item \in Range(outbound) \cup Range(publish_outbound))
            ~> (item \in taken \/ state # Provisioned)

\* the liveness half of C32: a control message posted while run() is in its
\* loop is eventually taken by run(). Under SpecFlood it fails: while every
\* iteration finds a receive completed, do_loop is never Pending when select
\* polls it, and the control signal (polled second) is never polled.
ControlEventuallyTaken ==
    (control # "None" /\ pc \in {"loop", "wait", "call"}) ~> (control = "None")

\* C32 as claimed, in the form a finite run refutes: a ForceReset posted to
\* the control signal is not lost before it is handled; it stays posted
\* until the step in which run() takes it and calls node_reset.
C32_ControlHandled ==
    [][control = "ForceReset" =>
          \/ control' = "ForceReset"
          \/ /\ control' = "None"
             /\ nodeResets' = nodeResets + 1]_vars

(***************************************************************************)
(* Properties of the beacon (checked under SpecBeacon) and of the publish  *)
(* resolution (checked under SpecPublish).                                 *)
(***************************************************************************)

\* the layout [20, MESH_BEACON, 0x00, uuid, 0xA0, 0x40] of byte string t,
\* with the UUID at byte offsets 3 to 18
BeaconLayout(t, u) ==
    /\ Len(t) >= 3 + UuidLen + 2
    /\ t[1] = 20 /\ t[2] = MESH_BEACON /\ t[3] = 0
    /\ \A i \in 1..UuidLen : t[3 + i] = u[i]
    /\ t[3 + UuidLen + 1] = 160 /\ t[3 + UuidLen + 2] = 64

\* C23 as claimed: every beacon handed to the transmitter is exactly 31
\* bytes long and has the layout [20, MESH_BEACON, 0x00, UUID, 0xA0, 0x40].
C23_BeaconIs31Bytes ==
    \A i \in 1..Len(transmits) :
        Len(transmits[i]) = 31 /\ BeaconLayout(transmits[i], uuid)

\* C23 amended: every beacon handed to the transmitter is exactly 21 bytes
\* long (31 is the capacity of its buffer) and has the layout [20,
\* MESH_BEACON, 0x00, UUID, 0xA0, 0x40] with the UUID at byte offsets 3 to
\* 18, for every UUID.
C23_BeaconIs21Bytes ==
    \A i \in 1..Len(transmits) :
        Len(transmits[i]) = 21 /\ BeaconLayout(transmits[i], uuid)

\* C23 witness: a beacon has been transmitted for a UUID other than the
\* example, whose last byte is 0.
C23_Witness ==
    /\ Len(transmits) = 1
    /\ uuid # ExampleUuid /\ uuid[UuidLen] = 0

\* C26: when the configuration has a network, a publication for the
\* message's (element address, model identifier) and an app key for the
\* publication's index, publish passes exactly one AccessMessage to
\* process_outbound, with the publication's ttl and address, the app key's
\* aid and the message's element address and payload.
C26_PublishResolution ==
    pubResult # "none" =>
        \A p \in pubConfig.publications, k \in pubConfig.app_keys :
            (/\ pubConfig.present
             /\ p.element_address = pubMessage.element_address
             /\ p.model_identifier = pubMessage.model_identifier
             /\ k.index = p.app_key_index) =>
                /\ Len(forwarded) = 1
                /\ forwarded[1].ttl = p.publish_ttl
                /\ forwarded[1].dst = p.publish_address
                /\ forwarded[1].aid = k.aid
                /\ forwarded[1].src = pubMessage.element_address
                /\ forwarded[1].payload = pubMessage.payload

\* C26 witness: publish has forwarded a message resolved in a configuration
\* that holds two publications and two app keys.
C26_Witness ==
    /\ pubResult = "Ok"
    /\ Len(forwarded) = 1
    /\ Cardinality(pubConfig.publications) = 2
    /\ Cardinality(pubConfig.app_keys) = 2

(***************************************************************************)
(* Properties of SignalSlot (checked under SpecSlot).                      *)
(***************************************************************************)

\* C36: the swap of acquire() decides what it returns. Since the latest
\* release() (or since construction) at most one acquire() has returned
\* true, and the slot is free exactly when none has: every acquire() after
\* a successful one and before the next release() returns false, and of the
\* acquire() calls that race on a free slot exactly one returns true.
C36_SlotExclusive ==
    /\ grants <= 1
    /\ free <=> grants = 0

\* C36 witness: two acquire() calls raced on the free slot; one got true
\* and is still inside signal.reset(), the other has returned false.
C36_Witness ==
    \E c, d \in Ctx :
        /\ c # d
        /\ acq[c] = "true" /\ cpc[c] \in {"lock", "write", "unlock"}
        /\ acq[d] = "false" /\ cop[d] = "acquire" /\ cpc[d] = "idle"
        /\ grants = 1 /\ ~free

\* C37: the write of reset(), called directly or by a successful acquire(),
\* leaves the state None whatever it was and wakes nobody. A poll_wait that
\* returns Ready takes a signal() completed after the latest reset (and
\* after the latest Ready), and signal() wakes only a waker registered in
\* the state it replaces: a waker registered when reset ran is gone from
\* the state and is woken only after it has polled again.
C37_ResetDiscards ==
    [][\A c \in Ctx :
        /\ (cpc[c] = "write" /\ cop[c] = "reset" /\ cpc'[c] = "unlock") =>
              /\ sigState' = StateNone
              /\ woken' = woken
              /\ sigCount' = 0
        /\ (cpc[c] = "write" /\ cop[c] = "poll_wait" /\ cpc'[c] = "unlock"
              /\ cresult'[c] = "Ready") =>
              /\ sigState = Signaled
              /\ sigCount >= 1
        /\ (cpc[c] = "write" /\ cop[c] = "signal" /\ cpc'[c] = "unlock") =>
              \A w \in Wakers :
                  woken'[w] # woken[w] => w \in sigState.waiters]_vars

\* C37 witness: a waker was registered by the latest poll_wait, a
\* successful acquire() reset the slot, and the signal() that came after
\* found the state None and woke nobody.
C37_Witness ==
    /\ lastWait.tag = "poll_wait" /\ lastWait.post.tag = "Waiting"
    /\ \E c \in Ctx : acq[c] = "true" /\ cpc[c] = "idle"
    /\ lastSignal.tag = "signal" /\ lastSignal.pre = StateNone
    /\ lastSignal.woke = {}
    /\ sigState = Signaled
    /\ \A w \in Wakers : woken[w] = 0

(***************************************************************************)
(* Properties of the DMA UART (checked under SpecUart).                    *)
(***************************************************************************)

\* C38: a read or read_with_timeout that finds rx_state BUSY returns
\* Err(RxInProgress) and creates no queue read, leaves rx_timeout as it is
\* and schedules nothing; a write that finds tx_state BUSY returns
\* Err(TxInProgress) and creates no queue write. At most one RxFuture and
\* at most one TxFuture are outstanding.
C38_SingleOutstanding ==
    /\ (lastOp.tag \in {"read", "read_with_timeout"} /\ lastOp.busy) =>
          /\ lastOp.result = "RxInProgress"
          /\ lastOp.post = lastOp.pre
    /\ (lastOp.tag = "write" /\ lastOp.busy) =>
          /\ lastOp.result = "TxInProgress"
          /\ lastOp.post = lastOp.pre
    /\ Cardinality(rxFutures) <= 1
    /\ Cardinality(txFutures) <= 1

\* C38 witness: with a read and a write outstanding and a ReadTimeout
\* scheduled, a read_with_timeout has been refused.
C38_Witness ==
    /\ lastOp.tag = "read_with_timeout" /\ lastOp.busy
    /\ lastOp.result = "RxInProgress"
    /\ Cardinality(rxFutures) = 1 /\ Cardinality(txFutures) = 1
    /\ scheduled # {}

\* C39 as claimed: whenever rx_state (tx_state) is BUSY an accepted read
\* (write) future is outstanding.
C39_BusyReleased ==
    /\ rx_state = BUSY_STATE => rxFutures # {}
    /\ tx_state = BUSY_STATE => txFutures # {}

\* C40 as claimed: a read is cancelled only by the ReadTimeout that its own
\* read_with_timeout scheduled.
C40_TimeoutScoped ==
    \A c \in cancels : c.by = c.read

====
